---- MODULE Spec2Model ----
(***************************************************************************)
(* check_assets.py: one run of main() enumerates the assets and the        *)
(* markdown, liquid and scss source files of a project, calls              *)
(* check_asset_usage for every asset (in sorted order) and partitions the  *)
(* assets into used_assets and unused_assets.                              *)
(*                                                                         *)
(* Text is a sequence of one-character strings, so that `pattern in        *)
(* content' is a real substring search.  The bytes of a file are a text    *)
(* that may hold the marker BAD, one byte that does not decode.            *)
(***************************************************************************)
EXTENDS Integers, Sequences, FiniteSets, TLC

VARIABLES fs, assetFiles, run, pc, assets, md_files, liquid_files,
          scss_files, ai, fi, patterns, references, content, used_assets,
          unused_assets, total_size, reads, prev

vars == <<fs, assetFiles, run, pc, assets, md_files, liquid_files,
          scss_files, ai, fi, patterns, references, content, used_assets,
          unused_assets, total_size, reads, prev>>

(* ------------------------------ bounds --------------------------------- *)

\* number of *.md files at the project root
NumMd == 2
\* largest number of files under assets/
MaxAssets == 2
\* number of times the tool is run against the unmodified project
MaxRuns == 2

(* ------------------------------- text ---------------------------------- *)

\* a byte that does not decode
BAD == "BAD"

\* the characters of the asset paths, in code point order
CodeOrder ==
  <<".", "/", "A", "C", "E", "G", "J", "M", "N", "P",
    "a", "c", "e", "g", "h", "i", "l", "m", "n", "o", "p", "r", "s", "t">>

Ord(c) == CHOOSE i \in 1..Len(CodeOrder) : CodeOrder[i] = c

UpperChars ==
  <<"A", "B", "C", "D", "E", "F", "G", "H", "I", "J", "K", "L", "M",
    "N", "O", "P", "Q", "R", "S", "T", "U", "V", "W", "X", "Y", "Z">>

LowerChars ==
  <<"a", "b", "c", "d", "e", "f", "g", "h", "i", "j", "k", "l", "m",
    "n", "o", "p", "q", "r", "s", "t", "u", "v", "w", "x", "y", "z">>

LowerChar(c) ==
  IF \E i \in 1..Len(UpperChars) : UpperChars[i] = c
  THEN LowerChars[CHOOSE i \in 1..Len(UpperChars) : UpperChars[i] = c]
  ELSE c

\* str.lower() left out: the comparison is case-sensitive
LowerMissing(s) == s

\* str.lower()
Lower(s) == [i \in 1..Len(s) |-> LowerChar(s[i])]

\* pattern in content
Contains(pattern, text) ==
  \E i \in 0..(Len(text) - Len(pattern)) :
    \A k \in 1..Len(pattern) : text[i + k] = pattern[k]

\* the index of the last occurrence of c in s, 0 when there is none
RFind(s, c) ==
  IF \E i \in 1..Len(s) : s[i] = c
  THEN CHOOSE i \in 1..Len(s) :
         s[i] = c /\ \A j \in (i + 1)..Len(s) : s[j] # c
  ELSE 0

\* Path.name: the last component
Name(path) == SubSeq(path, RFind(path, "/") + 1, Len(path))

\* Path.suffix: from the last dot of the name, unless the dot is the first
\* or the last character of the name
Suffix(path) ==
  LET name == Name(path)
      i == RFind(name, ".")
  IN IF 1 < i /\ i < Len(name) THEN SubSeq(name, i, Len(name)) ELSE <<>>

\* Path.stem: the name without its suffix
Stem(path) ==
  LET name == Name(path)
  IN SubSeq(name, 1, Len(name) - Len(Suffix(path)))

ImageExtensions ==
  { <<".", "p", "n", "g">>, <<".", "j", "p", "g">>,
    <<".", "j", "p", "e", "g">>, <<".", "g", "i", "f">>,
    <<".", "s", "v", "g">>, <<".", "w", "e", "b", "p">> }

\* asset.suffix.lower() in [".png", ...]
HasImageExt(asset) == Lower(Suffix(asset)) \in ImageExtensions

\* the patterns without the bare file name
PatternsNoFilename(asset) ==
  <<asset, <<"/">> \o asset>>
    \o (IF HasImageExt(asset) THEN <<Stem(asset)>> ELSE <<>>)

\* the stem appended whatever the extension
PatternsStemAlways(asset) ==
  <<asset, <<"/">> \o asset, Name(asset), Stem(asset)>>

\* the pattern list of an asset (given by its path relative to the project
\* root): relative path, with leading slash, file name, and for images the
\* stem
Patterns(asset) ==
  <<asset, <<"/">> \o asset, Name(asset)>>
    \o (IF HasImageExt(asset) THEN <<Stem(asset)>> ELSE <<>>)

\* errors="replace": an undecodable byte becomes a replacement character
DecodeReplace(bytes) ==
  [i \in 1..Len(bytes) |-> IF bytes[i] = BAD THEN "?" ELSE bytes[i]]

\* bytes decoded with errors="ignore": undecodable bytes are dropped
Decode(bytes) == SelectSeq(bytes, LAMBDA b : b # BAD)

(* --------------------------- path ordering ----------------------------- *)

RECURSIVE Split(_)
\* the components of a path
Split(path) ==
  IF \E i \in 1..Len(path) : path[i] = "/"
  THEN LET i == CHOOSE k \in 1..Len(path) :
                  path[k] = "/" /\ \A j \in 1..(k - 1) : path[j] # "/"
       IN <<SubSeq(path, 1, i - 1)>> \o Split(SubSeq(path, i + 1, Len(path)))
  ELSE <<path>>

RECURSIVE StrLess(_, _)
\* s < t on strings: by code point, a proper prefix first
StrLess(s, t) ==
  IF t = <<>> THEN FALSE
  ELSE IF s = <<>> THEN TRUE
  ELSE IF s[1] # t[1] THEN Ord(s[1]) < Ord(t[1])
  ELSE StrLess(Tail(s), Tail(t))

RECURSIVE PartsLess(_, _)
\* p < q on lists of components
PartsLess(p, q) ==
  IF q = <<>> THEN FALSE
  ELSE IF p = <<>> THEN TRUE
  ELSE IF p[1] # q[1] THEN StrLess(p[1], q[1])
  ELSE PartsLess(Tail(p), Tail(q))

\* Path.__lt__
PathLess(a, b) == PartsLess(Split(a), Split(b))

\* the sequences that list every element of S once
Perms(S) ==
  { s \in [1..Cardinality(S) -> S] :
      \A i, j \in 1..Cardinality(S) : i # j => s[i] # s[j] }

\* sorted(assets)
Sorted(S) ==
  CHOOSE s \in Perms(S) :
    \A i, j \in 1..Len(s) : i < j => PathLess(s[i], s[j])

(* --------------------------- the project ------------------------------- *)

\* assets/img/logo.png: an image
LogoPng ==
  <<"a", "s", "s", "e", "t", "s", "/", "i", "m", "g", "/", "l", "o", "g",
    "o", ".", "p", "n", "g">>

\* assets/hero.JPG: an image whose extension is in upper case
HeroJpg ==
  <<"a", "s", "s", "e", "t", "s", "/", "h", "e", "r", "o", ".", "J", "P",
    "G">>

\* assets/logo.css: no image, same stem as logo.png
LogoCss ==
  <<"a", "s", "s", "e", "t", "s", "/", "l", "o", "g", "o", ".", "c", "s",
    "s">>

\* assets/CNAME: a file without extension
Cname ==
  <<"a", "s", "s", "e", "t", "s", "/", "C", "N", "A", "M", "E">>

\* the files that may lie under assets/, as paths relative to the project
\* root
AssetUniverse == {LogoPng, HeroJpg, LogoCss, Cname}

\* st_size of an asset; the sizes are distinct powers of two, so a total
\* tells which assets were added up
Size(asset) ==
  CASE asset = LogoPng -> 1
    [] asset = HeroJpg -> 2
    [] asset = LogoCss -> 4
    [] asset = Cname -> 8

\* (assets/img/logo.png): logo.png by its relative path
TextLogoPath ==
  <<"(", "a", "s", "s", "e", "t", "s", "/", "i", "m", "g", "/", "l", "o",
    "g", "o", ".", "p", "n", "g", ")">>

\* url(hero.jpg): hero.JPG by its stem only
TextHeroUrl ==
  <<"u", "r", "l", "(", "h", "e", "r", "o", ".", "j", "p", "g", ")">>

\* /assets/lo?go.css CNAME, ? a byte that does not decode: once the byte is
\* dropped, logo.css by its path with a leading slash and CNAME by its name
TextBadByte ==
  <<"/", "a", "s", "s", "e", "t", "s", "/", "l", "o", BAD, "g", "o", ".",
    "c", "s", "s", " ", "C", "N", "A", "M", "E">>

\* the bytes a source file may hold
Texts == {TextLogoPath, TextHeroUrl, TextBadByte}

\* a source file on disk: its bytes, or a file that cannot be opened
FileStates ==
  {[readable |-> TRUE, bytes |-> t] : t \in Texts}
    \cup {[readable |-> FALSE, bytes |-> <<>>]}

MdSet == {[cat |-> "md", n |-> i] : i \in 1..NumMd}
\* one template, _includes/tpl1.liquid
LiquidSet == {[cat |-> "liquid", n |-> 1]}
\* one stylesheet, _sass/style1.scss
ScssSet == {[cat |-> "scss", n |-> 1]}
SrcFiles == MdSet \cup LiquidSet \cup ScssSet

\* the liquid files the _includes glob finds; the others lie in _layouts
IncludesSet == {f \in LiquidSet : f.n % 2 = 1}

\* the path of a source file below the project root, as components
SrcPath(f) ==
  CASE f.cat = "md" -> <<"page" \o ToString(f.n) \o ".md">>
    [] f.cat = "liquid" ->
         <<IF f \in IncludesSet THEN "_includes" ELSE "_layouts",
           "tpl" \o ToString(f.n) \o ".liquid">>
    [] f.cat = "scss" -> <<"_sass", "style" \o ToString(f.n) \o ".scss">>

\* str(md_file.name)
MdRefName(f) == <<SrcPath(f)[Len(SrcPath(f))]>>

\* str(file.relative_to(file.parent.parent)): the last two components
ParentRefName(f) ==
  SubSeq(SrcPath(f), Len(SrcPath(f)) - 1, Len(SrcPath(f)))

\* the name under which a reference to f is recorded
RefName(f) == IF f.cat = "md" THEN MdRefName(f) ELSE ParentRefName(f)

(* ------------------------- check_asset_usage --------------------------- *)

RECURSIVE ScanPatternsNoBreak(_, _, _, _)
\* the pattern loop without its break: one entry per matching pattern
ScanPatternsNoBreak(pats, text, list, name) ==
  IF pats = <<>> THEN list
  ELSE IF Contains(Head(pats), text)
       THEN ScanPatternsNoBreak(Tail(pats), text, Append(list, name), name)
       ELSE ScanPatternsNoBreak(Tail(pats), text, list, name)

RECURSIVE ScanPatterns(_, _, _, _)
\* for pattern in patterns: if pattern in content: append; break
ScanPatterns(pats, text, list, name) ==
  IF pats = <<>> THEN list
  ELSE IF Contains(Head(pats), text) THEN Append(list, name)
  ELSE ScanPatterns(Tail(pats), text, list, name)

\* references = {"md": [], "liquid": [], "scss": []}
NoReferences == [md |-> <<>>, liquid |-> <<>>, scss |-> <<>>]

\* the body of the md loop for one file
ScanMdFile(refs, pats, text, f) ==
  [refs EXCEPT !.md = ScanPatterns(pats, text, @, MdRefName(f))]

\* the body of the liquid loop for one file
ScanLiquidFile(refs, pats, text, f) ==
  [refs EXCEPT !.liquid = ScanPatterns(pats, text, @, ParentRefName(f))]

\* the scss loop recording under "md"
ScanScssFileIntoMd(refs, pats, text, f) ==
  [refs EXCEPT !.md = ScanPatterns(pats, text, @, ParentRefName(f))]

\* the body of the scss loop for one file
ScanScssFile(refs, pats, text, f) ==
  [refs EXCEPT !.scss = ScanPatterns(pats, text, @, ParentRefName(f))]

\* read_text(errors="ignore") of a readable file
ReadText(f) == Decode(fs[f].bytes)

\* a read that is served from a cache once the file has been read
CountReadCached(counts, f) ==
  IF counts[f] = 0 THEN [counts EXCEPT ![f] = 1] ELSE counts

\* one more read_text call on f
CountRead(counts, f) == [counts EXCEPT ![f] = @ + 1]

(* -------------------------------- main --------------------------------- *)

\* any(refs.values())
HasRefs(refs) == refs.md # <<>> \/ refs.liquid # <<>> \/ refs.scss # <<>>

\* used_assets after the if/else of the loop body
NewUsed(used, asset, refs) ==
  IF HasRefs(refs) THEN Append(used, <<asset, refs>>) ELSE used

\* the else lost: every asset is appended to unused_assets
NewUnusedAlways(unused, asset, refs) == Append(unused, asset)

\* unused_assets after the if/else of the loop body
NewUnused(unused, asset, refs) ==
  IF HasRefs(refs) THEN unused ELSE Append(unused, asset)

\* total_size = size instead of total_size += size
SumSizesLast(list) ==
  IF list = <<>> THEN 0 ELSE Size(list[Len(list)])

RECURSIVE SumSizes(_)
\* total_size after the loop over unused_assets
SumSizes(list) ==
  IF list = <<>> THEN 0
  ELSE SumSizes(SubSeq(list, 1, Len(list) - 1)) + Size(list[Len(list)])

\* a list that outlives the run
CarriedUsedAssets == used_assets

\* used_assets = []
NewUsedAssets == <<>>

\* the classification and the totals one run prints
Summary ==
  [used |-> [i \in 1..Len(used_assets) |-> used_assets[i][1]],
   unused |-> unused_assets,
   nused |-> Len(used_assets),
   nunused |-> Len(unused_assets),
   total |-> total_size]

\* the order in which a glob yields the files of S: the order of the
\* directory entries, which stays the same as long as the project is not
\* modified; file n is the n-th entry
Listing(S) ==
  CHOOSE s \in Perms(S) : \A i, j \in 1..Len(s) : i < j => s[i].n < s[j].n

Init ==
  /\ fs \in [SrcFiles -> FileStates]
  /\ assetFiles \in {S \in SUBSET AssetUniverse : Cardinality(S) <= MaxAssets}
  /\ run = 1
  /\ pc = "start"
  /\ assets = <<>>
  /\ md_files = <<>>
  /\ liquid_files = <<>>
  /\ scss_files = <<>>
  /\ ai = 1
  /\ fi = 1
  /\ patterns = <<>>
  /\ references = NoReferences
  /\ content = <<>>
  /\ used_assets = <<>>
  /\ unused_assets = <<>>
  /\ total_size = 0
  /\ reads = [f \in SrcFiles |-> 0]
  /\ prev = <<>>

\* main up to the loop: the enumerations, the sort, the two empty lists
StartRun ==
  /\ pc = "start"
  /\ assets' = Sorted(assetFiles)
  /\ md_files' = Listing(MdSet)
  /\ liquid_files' = Listing(IncludesSet) \o Listing(LiquidSet \ IncludesSet)
  /\ scss_files' = Listing(ScssSet)
  /\ used_assets' = NewUsedAssets
  /\ unused_assets' = <<>>
  /\ ai' = 1
  /\ fi' = 1
  /\ patterns' = <<>>
  /\ references' = NoReferences
  /\ content' = <<>>
  /\ total_size' = 0
  /\ reads' = [f \in SrcFiles |-> 0]
  /\ pc' = "loop"
  /\ UNCHANGED <<fs, assetFiles, run, prev>>

\* the call of check_asset_usage for the next asset: the patterns and the
\* empty reference lists
BeginAsset ==
  /\ pc = "loop"
  /\ ai <= Len(assets)
  /\ patterns' = Patterns(assets[ai])
  /\ references' = NoReferences
  /\ fi' = 1
  /\ pc' = "md"
  /\ UNCHANGED <<fs, assetFiles, run, assets, md_files, liquid_files,
                 scss_files, ai, content, used_assets, unused_assets,
                 total_size, reads, prev>>

\* one iteration of the md loop
ScanMd ==
  /\ pc = "md"
  /\ fi <= Len(md_files)
  /\ fs[md_files[fi]].readable
  /\ content' = <<ReadText(md_files[fi])>>
  /\ reads' = CountRead(reads, md_files[fi])
  /\ references' = ScanMdFile(references, patterns, content'[1], md_files[fi])
  /\ fi' = fi + 1
  /\ UNCHANGED <<fs, assetFiles, run, pc, assets, md_files, liquid_files,
                 scss_files, ai, patterns, used_assets, unused_assets,
                 total_size, prev>>

\* the md loop is over
EndMd ==
  /\ pc = "md"
  /\ fi > Len(md_files)
  /\ pc' = "liquid"
  /\ fi' = 1
  /\ UNCHANGED <<fs, assetFiles, run, assets, md_files, liquid_files,
                 scss_files, ai, patterns, references, content, used_assets,
                 unused_assets, total_size, reads, prev>>

\* one iteration of the liquid loop
ScanLiquid ==
  /\ pc = "liquid"
  /\ fi <= Len(liquid_files)
  /\ fs[liquid_files[fi]].readable
  /\ content' = <<ReadText(liquid_files[fi])>>
  /\ reads' = CountRead(reads, liquid_files[fi])
  /\ references' =
       ScanLiquidFile(references, patterns, content'[1], liquid_files[fi])
  /\ fi' = fi + 1
  /\ UNCHANGED <<fs, assetFiles, run, pc, assets, md_files, liquid_files,
                 scss_files, ai, patterns, used_assets, unused_assets,
                 total_size, prev>>

\* the liquid loop is over
EndLiquid ==
  /\ pc = "liquid"
  /\ fi > Len(liquid_files)
  /\ pc' = "scss"
  /\ fi' = 1
  /\ UNCHANGED <<fs, assetFiles, run, assets, md_files, liquid_files,
                 scss_files, ai, patterns, references, content, used_assets,
                 unused_assets, total_size, reads, prev>>

\* one iteration of the scss loop
ScanScss ==
  /\ pc = "scss"
  /\ fi <= Len(scss_files)
  /\ fs[scss_files[fi]].readable
  /\ content' = <<ReadText(scss_files[fi])>>
  /\ reads' = CountRead(reads, scss_files[fi])
  /\ references' =
       ScanScssFile(references, patterns, content'[1], scss_files[fi])
  /\ fi' = fi + 1
  /\ UNCHANGED <<fs, assetFiles, run, pc, assets, md_files, liquid_files,
                 scss_files, ai, patterns, used_assets, unused_assets,
                 total_size, prev>>

\* the list the loop at pc iterates over
CurrentList ==
  CASE pc = "md" -> md_files
    [] pc = "liquid" -> liquid_files
    [] pc = "scss" -> scss_files
    [] OTHER -> <<>>

\* read_text raises on a file that cannot be opened; nothing catches it and
\* the process ends
ReadFail ==
  /\ pc \in {"md", "liquid", "scss"}
  /\ fi <= Len(CurrentList)
  /\ ~fs[CurrentList[fi]].readable
  /\ pc' = "crashed"
  /\ UNCHANGED <<fs, assetFiles, run, assets, md_files, liquid_files,
                 scss_files, ai, fi, patterns, references, content,
                 used_assets, unused_assets, total_size, reads, prev>>

\* check_asset_usage returns (its locals are gone) and main files the asset
\* as used or unused
Classify ==
  /\ pc = "scss"
  /\ fi > Len(scss_files)
  /\ used_assets' = NewUsed(used_assets, assets[ai], references)
  /\ unused_assets' = NewUnused(unused_assets, assets[ai], references)
  /\ content' = <<>>
  /\ ai' = ai + 1
  /\ pc' = "loop"
  /\ UNCHANGED <<fs, assetFiles, run, assets, md_files, liquid_files,
                 scss_files, fi, patterns, references, total_size, reads,
                 prev>>

\* the report: the loop over unused_assets that adds up the sizes, and the
\* totals
Report ==
  /\ pc = "loop"
  /\ ai > Len(assets)
  /\ total_size' = SumSizes(unused_assets)
  /\ pc' = "done"
  /\ UNCHANGED <<fs, assetFiles, run, assets, md_files, liquid_files,
                 scss_files, ai, fi, patterns, references, content,
                 used_assets, unused_assets, reads, prev>>

\* the tool is started again on the unmodified project; prev keeps what the
\* run before printed
NextRun ==
  /\ pc = "done"
  /\ run < MaxRuns
  /\ prev' = <<Summary>>
  /\ run' = run + 1
  /\ pc' = "start"
  /\ UNCHANGED <<fs, assetFiles, assets, md_files, liquid_files, scss_files,
                 ai, fi, patterns, references, content, used_assets,
                 unused_assets, total_size, reads>>

Next ==
  \/ StartRun
  \/ BeginAsset
  \/ ScanMd
  \/ EndMd
  \/ ScanLiquid
  \/ EndLiquid
  \/ ScanScss
  \/ ReadFail
  \/ Classify
  \/ Report
  \/ NextRun

Spec == Init /\ [][Next]_vars

(* ------------------------- reading the results ------------------------- *)

Scanning == pc \in {"md", "liquid", "scss"}

\* the classification loop of main has finished
LoopFinished == (pc = "loop" /\ ai > Len(assets)) \/ pc = "done"

IsUsed(a) == \E i \in 1..Len(used_assets) : used_assets[i][1] = a

IsUnused(a) == \E i \in 1..Len(unused_assets) : unused_assets[i] = a

Classified(a) == IsUsed(a) \/ IsUnused(a)

\* the reference lists filed with a used asset
UsedRefs(a) ==
  used_assets[CHOOSE i \in 1..Len(used_assets) : used_assets[i][1] = a][2]

InSeq(x, list) == \E i \in 1..Len(list) : list[i] = x

\* the text of a readable source file
TextOf(f) == Decode(fs[f].bytes)

\* for every asset and every file content: the decoded content contains a
\* pattern of the pattern set of the asset
MatchTable ==
  [a \in AssetUniverse, t \in Texts |->
     \E i \in 1..Len(Patterns(a)) : Contains(Patterns(a)[i], Decode(t))]

\* the text of f contains a pattern of the pattern set of asset a
Matches(a, f) == MatchTable[a, fs[f].bytes]

\* for every asset and every file content: the decoded content contains the
\* relative path of the asset, its file name or, when the extension is an
\* image extension, its stem
MentionTable ==
  [a \in AssetUniverse, t \in Texts |->
     \/ Contains(a, Decode(t))
     \/ Contains(Name(a), Decode(t))
     \/ HasImageExt(a) /\ Contains(Stem(a), Decode(t))]

RECURSIVE SizeSum(_)
\* the sum of the sizes of a set of assets
SizeSum(S) ==
  IF S = {} THEN 0
  ELSE LET a == CHOOSE x \in S : TRUE IN Size(a) + SizeSum(S \ {a})

\* the reference names of the files of a list, in list order
NamesOf(list) == [i \in 1..Len(list) |-> RefName(list[i])]

(* -------------------------------- C1 ----------------------------------- *)

\* C1: once the classification loop has finished, every enumerated asset is
\* in exactly one of used_assets and unused_assets, no asset is listed
\* twice, nothing else is listed, and the two lengths add up to the number
\* of enumerated assets.
C1_Partition ==
  LoopFinished =>
    /\ \A a \in assetFiles : IsUsed(a) # IsUnused(a)
    /\ \A i, j \in 1..Len(used_assets) :
         i # j => used_assets[i][1] # used_assets[j][1]
    /\ \A i, j \in 1..Len(unused_assets) :
         i # j => unused_assets[i] # unused_assets[j]
    /\ \A i \in 1..Len(used_assets) : used_assets[i][1] \in assetFiles
    /\ \A i \in 1..Len(unused_assets) : unused_assets[i] \in assetFiles
    /\ Len(used_assets) + Len(unused_assets) = Cardinality(assetFiles)

C1_Witness ==
  /\ pc = "done"
  /\ Cardinality(assetFiles) = 2
  /\ Len(used_assets) = 1
  /\ Len(unused_assets) = 1

(* -------------------------------- C2 ----------------------------------- *)

\* C2: when the text of a scanned file contains the relative path of an
\* asset, its file name or (image extension) its stem, then the asset, once
\* classified, is used and the name of the file is in the reference list of
\* the file's category; after the loop every such asset is classified.
C2_MentionedIsUsed ==
  \A a \in assetFiles : \A f \in SrcFiles :
    LET mentioned ==
          /\ fs[f].readable
          /\ MentionTable[a, fs[f].bytes]
    IN (mentioned /\ (Classified(a) \/ LoopFinished)) =>
         /\ IsUsed(a)
         /\ ~IsUnused(a)
         /\ InSeq(RefName(f), UsedRefs(a)[f.cat])

C2_Witness ==
  /\ pc = "done"
  /\ \E f \in MdSet :
       /\ fs[f].bytes = TextLogoPath
       /\ IsUsed(LogoPng)
       /\ InSeq(MdRefName(f), UsedRefs(LogoPng).md)
  /\ \E f \in SrcFiles :
       /\ fs[f].bytes = TextBadByte
       /\ IsUsed(Cname)
       /\ ~Contains(Cname, TextOf(f))

(* -------------------------------- C3 ----------------------------------- *)

\* C3: an asset none of whose patterns occurs in any scanned file is, once
\* the loop has finished, unused; and the total the report prints is the sum
\* of the sizes of exactly the unused assets.
C3_UnmentionedIsUnused ==
  /\ LoopFinished =>
       \A a \in assetFiles :
         (\A f \in SrcFiles : ~Matches(a, f)) => IsUnused(a) /\ ~IsUsed(a)
  /\ pc = "done" =>
       total_size = SizeSum({a \in assetFiles : IsUnused(a)})

C3_Witness ==
  /\ pc = "done"
  /\ Len(unused_assets) = 2
  /\ total_size = Size(unused_assets[1]) + Size(unused_assets[2])
  /\ \E f \in SrcFiles : fs[f].bytes = TextLogoPath

(* -------------------------------- C4 ----------------------------------- *)

\* C4: every entry of a category's reference list, in the result filed with
\* a used asset and in the lists being built, is the name of a file of that
\* category whose text contains a pattern of the asset; and an asset that
\* only scss files mention is used with a non-empty scss list and empty md
\* and liquid lists.
C4_OwnCategoryOnly ==
  LET Sound(a, refs) ==
        \A cat \in {"md", "liquid", "scss"} :
          \A i \in 1..Len(refs[cat]) :
            \E f \in SrcFiles :
              /\ f.cat = cat
              /\ RefName(f) = refs[cat][i]
              /\ fs[f].readable
              /\ Matches(a, f)
  IN /\ \A i \in 1..Len(used_assets) :
          Sound(used_assets[i][1], used_assets[i][2])
     /\ Scanning => Sound(assets[ai], references)
     /\ \A a \in assetFiles :
          ( /\ Classified(a)
            /\ \E f \in ScssSet : Matches(a, f)
            /\ \A f \in MdSet \cup LiquidSet : ~Matches(a, f) )
          => /\ IsUsed(a)
             /\ UsedRefs(a).scss # <<>>
             /\ UsedRefs(a).md = <<>>
             /\ UsedRefs(a).liquid = <<>>

C4_Witness ==
  /\ pc = "done"
  /\ IsUsed(Cname)
  /\ UsedRefs(Cname).scss # <<>>
  /\ UsedRefs(Cname).md = <<>>
  /\ UsedRefs(Cname).liquid = <<>>
  /\ \E f \in MdSet : fs[f].bytes = TextLogoPath

(* -------------------------------- C5 ----------------------------------- *)

\* s and t are equal up to the case of their letters
SameIgnoringCase(s, t) ==
  /\ Len(s) = Len(t)
  /\ \A i \in 1..Len(s) :
       \/ s[i] = t[i]
       \/ \E k \in 1..Len(UpperChars) :
            {s[i], t[i]} = {UpperChars[k], LowerChars[k]}

\* the extension of the asset is, up to case, one of the image extensions
ImageByExtension ==
  [a \in AssetUniverse |->
     \E e \in ImageExtensions : SameIgnoringCase(Suffix(a), e)]

\* for every asset and every file content: the decoded content contains the
\* file name of the asset
NameTable ==
  [a \in AssetUniverse, t \in Texts |-> Contains(Name(a), Decode(t))]

\* for every asset and every file content: the decoded content contains the
\* stem of the asset
StemTable ==
  [a \in AssetUniverse, t \in Texts |-> Contains(Stem(a), Decode(t))]

\* C5 as stated: while an asset is checked, its stem is one of its patterns
\* if and only if its extension is, up to case, an image extension.
C5_StemIffImage ==
  Scanning => (InSeq(Stem(assets[ai]), patterns) <=> ImageByExtension[assets[ai]])

\* C5, amended: the stem is appended as a fourth pattern if and only if the
\* extension is, up to case, an image extension; it is among the patterns
\* if and only if the extension is an image extension or the stem is the
\* file name (an asset without extension); hence a file that does not
\* contain the file name of an asset without image extension is never in
\* the reference lists of that asset, whether or not it contains the stem.
C5_StemIffImageOrName ==
  /\ Scanning =>
       LET a == assets[ai]
       IN /\ ImageByExtension[a] =>
               Len(patterns) = 4 /\ patterns[4] = Stem(a)
          /\ ~ImageByExtension[a] => Len(patterns) = 3
          /\ InSeq(Stem(a), patterns)
               <=> (ImageByExtension[a] \/ Stem(a) = Name(a))
  /\ \A a \in assetFiles : \A f \in SrcFiles :
       ( /\ ~ImageByExtension[a]
         /\ fs[f].readable
         /\ ~NameTable[a, fs[f].bytes] )
       => /\ IsUsed(a) => ~InSeq(RefName(f), UsedRefs(a)[f.cat])
          /\ (Scanning /\ assets[ai] = a)
               => ~InSeq(RefName(f), references[f.cat])

\* logo.css is unused although a file holds its stem, hero.JPG is used by
\* its stem alone, and CNAME has been checked
C5_Witness ==
  /\ pc = "done"
  /\ IsUnused(LogoCss)
  /\ IsUsed(HeroJpg)
  /\ \E f \in SrcFiles :
       /\ StemTable[LogoCss, fs[f].bytes]
       /\ ~NameTable[LogoCss, fs[f].bytes]
  /\ \E f \in SrcFiles :
       /\ StemTable[HeroJpg, fs[f].bytes]
       /\ ~NameTable[HeroJpg, fs[f].bytes]

(* -------------------------------- C6 ----------------------------------- *)

\* C6 as stated: during one run a source file is read at most once.
C6_ReadOncePerRun == \A f \in SrcFiles : reads[f] <= 1

\* C6, amended: a source file is read once in every call of
\* check_asset_usage, that is once per asset: while the asset at position ai
\* is checked a file has been read ai - 1 or ai times, and a finished run
\* has read every file as many times as there are assets; one content at
\* most is held, and only inside check_asset_usage (it is released when the
\* next file is read or the call returns).
C6_ReadOncePerAsset ==
  /\ pc = "done" => \A f \in SrcFiles : reads[f] = Cardinality(assetFiles)
  /\ pc = "loop" => \A f \in SrcFiles : reads[f] = ai - 1
  /\ Scanning => \A f \in SrcFiles : reads[f] \in {ai - 1, ai}
  /\ Scanning =>
       \A k \in 1..Len(CurrentList) :
         reads[CurrentList[k]] = (IF k < fi THEN ai ELSE ai - 1)
  /\ Len(content) <= 1
  /\ content # <<>> => Scanning \/ pc = "crashed"
  /\ (Scanning /\ content # <<>> /\ fi > 1) =>
       content[1] = TextOf(CurrentList[fi - 1])

C6_Witness ==
  /\ pc = "done"
  /\ Cardinality(assetFiles) = 2
  /\ \A f \in SrcFiles : reads[f] = 2
  /\ content = <<>>

(* -------------------------------- C7 ----------------------------------- *)

RECURSIVE WithoutBadBytes(_)
\* the bytes of a file with the undecodable ones taken out
WithoutBadBytes(bytes) ==
  IF bytes = <<>> THEN <<>>
  ELSE IF Head(bytes) = BAD THEN WithoutBadBytes(Tail(bytes))
  ELSE <<Head(bytes)>> \o WithoutBadBytes(Tail(bytes))

\* for every asset and every file content: the content without its
\* undecodable bytes contains a pattern of the asset
BestEffortTable ==
  [a \in AssetUniverse, t \in Texts |->
     \E i \in 1..Len(Patterns(a)) :
       Contains(Patterns(a)[i], WithoutBadBytes(t))]

\* the file cannot be opened, or holds a byte that does not decode
ReadTrouble(f) == ~fs[f].readable \/ InSeq(BAD, fs[f].bytes)

\* C7 as stated: a file whose read fails (it cannot be opened, or its bytes
\* do not decode) gets no reference and the run goes on.
C7_SkippedSilently ==
  /\ pc # "crashed"
  /\ \A i \in 1..Len(used_assets) : \A f \in SrcFiles :
       ReadTrouble(f) => ~InSeq(RefName(f), used_assets[i][2][f.cat])

\* C7, amended: a file with undecodable bytes is not skipped: the bytes that
\* do not decode are dropped and the rest is scanned as any other text, so
\* the file is recorded exactly when the remaining text contains a pattern,
\* and the run goes on; a file that cannot be opened is not skipped either:
\* the read raises, the run ends there, and no asset is classified.
C7_BestEffortDecode ==
  /\ \A a \in assetFiles : \A f \in SrcFiles :
       (InSeq(BAD, fs[f].bytes) /\ Classified(a)) =>
         /\ BestEffortTable[a, fs[f].bytes] =>
              IsUsed(a) /\ InSeq(RefName(f), UsedRefs(a)[f.cat])
         /\ ~BestEffortTable[a, fs[f].bytes] =>
              (IsUsed(a) => ~InSeq(RefName(f), UsedRefs(a)[f.cat]))
  /\ pc = "crashed" => \E f \in SrcFiles : ~fs[f].readable
  /\ (\E f \in SrcFiles : ~fs[f].readable) =>
       /\ used_assets = <<>>
       /\ unused_assets = <<>>
       /\ (assetFiles # {} => pc # "done")
  /\ (\A f \in SrcFiles : fs[f].readable) => pc # "crashed"

C7_Witness ==
  /\ pc = "done"
  /\ IsUsed(LogoCss)
  /\ \E f \in SrcFiles :
       /\ fs[f].bytes = TextBadByte
       /\ InSeq(RefName(f), UsedRefs(LogoCss)[f.cat])
       /\ \A g \in SrcFiles \ {f} : fs[g].bytes = TextHeroUrl

(* -------------------------------- C8 ----------------------------------- *)

\* C8: a run that follows another run on the unmodified project ends with
\* the same used and unused assets, the same two counts and the same total
\* of unused bytes as the run before.
C8_SameResultTwice ==
  (pc = "done" /\ prev # <<>>) => Summary = prev[1]

C8_Witness ==
  /\ pc = "done"
  /\ run = 2
  /\ prev # <<>>
  /\ Len(used_assets) = 1
  /\ Len(unused_assets) = 1
  /\ total_size > 0

(* -------------------------------- C9 ----------------------------------- *)

\* C9: the list of a category holds, in the order of enumeration, the name
\* of every file of the category that contains a pattern of the asset, each
\* once: in the result filed with a used asset, for an unused asset (no
\* file at all), and in the lists being built as far as the loops have come.
C9_EveryFileOnceInOrder ==
  LET Hits(a, list) == NamesOf(SelectSeq(list, LAMBDA f : Matches(a, f)))
  IN /\ \A i \in 1..Len(used_assets) :
          LET a == used_assets[i][1]
              refs == used_assets[i][2]
          IN /\ refs.md = Hits(a, md_files)
             /\ refs.liquid = Hits(a, liquid_files)
             /\ refs.scss = Hits(a, scss_files)
     /\ \A i \in 1..Len(unused_assets) :
          /\ Hits(unused_assets[i], md_files) = <<>>
          /\ Hits(unused_assets[i], liquid_files) = <<>>
          /\ Hits(unused_assets[i], scss_files) = <<>>
     /\ Scanning =>
          references[pc] = Hits(assets[ai], SubSeq(CurrentList, 1, fi - 1))

\* both md files hold several patterns of logo.png: each is recorded once,
\* in the order of enumeration
C9_Witness ==
  /\ pc = "done"
  /\ IsUsed(LogoPng)
  /\ \A f \in MdSet : fs[f].bytes = TextLogoPath
  /\ UsedRefs(LogoPng).md = NamesOf(md_files)
  /\ Len(md_files) >= 2

(* -------------------------------- C10 ---------------------------------- *)

\* the one pattern of the simpler checker: the stem of an image, the file
\* name of any other asset
SinglePattern(a) == IF HasImageExt(a) THEN Stem(a) ELSE Name(a)

\* for every asset and every file content: the decoded content contains the
\* single pattern of the asset
SingleTable ==
  [a \in AssetUniverse, t \in Texts |-> Contains(SinglePattern(a), Decode(t))]

\* C10: the reference lists and the classification are those of a checker
\* that tests SinglePattern alone.
C10_SinglePatternSuffices ==
  LET Hits(a, list) ==
        NamesOf(SelectSeq(list, LAMBDA f : SingleTable[a, fs[f].bytes]))
  IN /\ \A i \in 1..Len(used_assets) :
          LET a == used_assets[i][1]
              refs == used_assets[i][2]
          IN /\ refs.md = Hits(a, md_files)
             /\ refs.liquid = Hits(a, liquid_files)
             /\ refs.scss = Hits(a, scss_files)
             /\ refs.md # <<>> \/ refs.liquid # <<>> \/ refs.scss # <<>>
     /\ \A i \in 1..Len(unused_assets) :
          /\ Hits(unused_assets[i], md_files) = <<>>
          /\ Hits(unused_assets[i], liquid_files) = <<>>
          /\ Hits(unused_assets[i], scss_files) = <<>>

\* logo.png is found by its relative path and logo.css by its path with a
\* leading slash
C10_Witness ==
  /\ pc = "done"
  /\ IsUsed(LogoPng)
  /\ IsUsed(LogoCss)
  /\ \E f \in SrcFiles : fs[f].bytes = TextLogoPath
  /\ \E f \in SrcFiles : fs[f].bytes = TextBadByte
====
